---- MODULE Spec2Model ----
(***************************************************************************)
(* Model of useStatementTableController                                    *)
(* (ui/lib/apps/Statement/utils/useStatementTableController.ts).           *)
(*                                                                         *)
(* One live controller instance plus the session storage it shares with    *)
(* earlier and later instances.  Every remote call is a suspended task in  *)
(* one of the in-flight sets; its resumption is one action.  A React       *)
(* effect whose dependencies changed is run in the same step as the state  *)
(* update that changed them: React flushes pending effects before it       *)
(* processes any later update, so no handler can observe the gap.          *)
(*                                                                         *)
(* Optional values (a missing storage item, an absent response payload,    *)
(* an omitted argument) are sets with zero or one element.                 *)
(***************************************************************************)
EXTENDS Integers, Sequences, FiniteSets, TLC

VARIABLES
  needSave,             \* argument needSave of the live instance
  options,              \* argument options of the live instance (optional)
  visibleColumnKeys,    \* argument visibleColumnKeys (set of keys set to true)
  sessionStorage,       \* raw item under QUERY_OPTIONS (optional)
  memoryQueryOptions,
  sessionQueryOptions,
  enable,
  allTimeRanges,
  allSchemas,
  allStmtTypes,
  loadingStatements,
  statements,
  refreshTimes,
  errors,
  downloading,
  mounted,              \* FALSE between the first render and its effects
  metaInFlight,         \* suspended metadata fetches
  listInFlight,         \* suspended statementsListGet calls
  listIssued,           \* number of statementsListGet calls issued so far
  dlInFlight,           \* suspended statementsDownloadTokenPost calls
  dlPromise,            \* state of the promise each downloadCSV() returned
  href,                 \* window.location.href
  steps,                \* number of counted steps taken so far
  last,                 \* the operation that made the last step
  persistedSet,         \* history: last value set by a needSave instance
  scopedSet,            \* history: last value set by a call-scoped instance
  shown                 \* history: the list response received last since the
                        \* loader last found allTimeRanges empty (optional)

vars == <<needSave, options, visibleColumnKeys, sessionStorage,
          memoryQueryOptions, sessionQueryOptions, enable, allTimeRanges,
          allSchemas, allStmtTypes, loadingStatements, statements,
          refreshTimes, errors, downloading, mounted, metaInFlight,
          listInFlight, listIssued, dlInFlight, dlPromise, href, steps,
          last, persistedSet, scopedSet, shown>>

(***************************************************************************)
(* Bounds                                                                  *)
(***************************************************************************)
\* Length of the behaviours explored: user operations and resumptions of
\* suspended fetches, counted together.
MaxSteps == 5

\* User operations after the mount in the behaviours of LiveSpec.
MaxLiveOps == 1

\* A step that counts against MaxSteps.
Counted == steps < MaxSteps /\ steps' = steps + 1

(***************************************************************************)
(* Values                                                                  *)
(***************************************************************************)
DEFAULT_TIME_RANGE == "recent"

DEF_STMT_QUERY_OPTIONS ==
  [timeRange |-> DEFAULT_TIME_RANGE, schemas |-> <<>>, stmtTypes |-> <<>>,
   searchText |-> ""]

DEF_STMT_COLUMN_KEYS ==
  {"digest_text", "sum_latency", "avg_latency", "exec_count", "plan_count",
   "related_schemas"}

OTHER_QUERY_OPTIONS ==
  [timeRange |-> "absolute", schemas |-> <<"db1">>, stmtTypes |-> <<>>,
   searchText |-> "x"]

\* The option values callers pass to setQueryOptions.
QueryOptionValues == {DEF_STMT_QUERY_OPTIONS, OTHER_QUERY_OPTIONS}

\* The options argument of the hook: omitted or given.
OptionsArguments == {{}, {OTHER_QUERY_OPTIONS}}

ColumnKeyValues == {DEF_STMT_COLUMN_KEYS, DEF_STMT_COLUMN_KEYS \cup {"max_mem"}}

MetaKinds == {"enable", "schemas", "timeRanges", "stmtTypes"}

\* What the server may answer (an empty set: no payload).
EnablePayloads == {{"false"}}
SchemasPayloads == {{<<"db1">>}}
TimeRangesPayloads == {{}, {<<"w1">>}}
StmtTypesPayloads == {{<<"select">>}}
ListPayloads == {{}, {<<"s1">>}, {<<"s2">>}}
TokenPayloads == {{}, {""}, {"t1"}}

PAGE_URL == <<"/dashboard/", "#/statement", "">>

OrEmpty(data) == IF data = {} THEN <<>> ELSE CHOOSE d \in data : TRUE

NoOp(op) == [op |-> op, kind |-> "", gen |-> 0, rows |-> <<>>]

(***************************************************************************)
(* Session storage hook: the item is the JSON text of the value            *)
(***************************************************************************)
JSONstringify(o) ==
  <<"timeRange", o.timeRange, "schemas", o.schemas, "stmtTypes", o.stmtTypes,
    "searchText", o.searchText>>

JSONparse(raw) ==
  [timeRange |-> raw[2], schemas |-> raw[4], stmtTypes |-> raw[6],
   searchText |-> raw[8]]

getStoredValue(storage, defaultValue) ==
  IF storage # {} THEN JSONparse(CHOOSE raw \in storage : TRUE)
  ELSE defaultValue

\* options || DEF_STMT_QUERY_OPTIONS
OptionsOrDefault(opt) ==
  IF opt # {} THEN CHOOSE o \in opt : TRUE ELSE DEF_STMT_QUERY_OPTIONS

\* useMemo(() => (needSave ? sessionQueryOptions : memoryQueryOptions))
QueryOptionsOf(ns, session, memory) == IF ns THEN session ELSE memory

queryOptions ==
  QueryOptionsOf(needSave, sessionQueryOptions, memoryQueryOptions)

\* getSelectedFields(visibleColumnKeys, derivedFields).join(',')
derivedFields == {"digest", "schema_name"}

selectedFields(keys) == keys \cup derivedFields

(***************************************************************************)
(* Statement list loader                                                   *)
(***************************************************************************)
\* Mutation: the loader without its guard on allTimeRanges.
ShortCircuitNever(ranges) == FALSE

\* if (allTimeRanges.length === 0)
ShortCircuit(ranges) == Len(ranges) = 0

\* One run of the effect with the values of the render it belongs to.
queryStatementList(opts, ranges, fields, gen) ==
  IF ShortCircuit(ranges)
  THEN /\ statements' = <<>>
       /\ loadingStatements' = FALSE
       /\ shown' = {}
       /\ UNCHANGED <<listInFlight, listIssued>>
  ELSE /\ loadingStatements' = TRUE
       /\ listIssued' = listIssued + 1
       /\ listInFlight' = listInFlight \cup
            {[id |-> listIssued + 1, opts |-> opts, fields |-> fields,
              gen |-> gen]}
       /\ UNCHANGED <<statements, shown>>

\* Mutation: one of the four calls is missing.
MetaBatchThree(gen) ==
  {[kind |-> k, gen |-> gen] : k \in MetaKinds \ {"stmtTypes"}}

\* The four calls at the end of the metadata effect.
MetaBatch(gen) == {[kind |-> k, gen |-> gen] : k \in MetaKinds}

(***************************************************************************)
(* Construction                                                            *)
(***************************************************************************)
\* The first instance of the session, constructed without the options
\* argument; later instances are given either argument.
Init ==
  /\ needSave \in BOOLEAN
  /\ options = {}
  /\ visibleColumnKeys = DEF_STMT_COLUMN_KEYS
  /\ sessionStorage = {}
  /\ memoryQueryOptions = OptionsOrDefault(options)
  /\ sessionQueryOptions = getStoredValue(sessionStorage, OptionsOrDefault(options))
  /\ enable = "true"
  /\ allTimeRanges = <<>>
  /\ allSchemas = <<>>
  /\ allStmtTypes = <<>>
  /\ loadingStatements = TRUE
  /\ statements = <<>>
  /\ refreshTimes = 0
  /\ errors = <<>>
  /\ downloading = FALSE
  /\ mounted = FALSE
  /\ metaInFlight = {}
  /\ listInFlight = {}
  /\ listIssued = 0
  /\ dlInFlight = {}
  /\ dlPromise = <<>>
  /\ href = PAGE_URL
  /\ steps = 0
  /\ last = NoOp("construct")
  /\ persistedSet = {}
  /\ scopedSet = {}
  /\ shown = {}

\* The first run of both effects, after the first render.
Mount ==
  /\ ~mounted
  /\ mounted' = TRUE
  /\ metaInFlight' = metaInFlight \cup MetaBatch(refreshTimes)
  /\ queryStatementList(queryOptions, allTimeRanges,
                        selectedFields(visibleColumnKeys), refreshTimes)
  /\ UNCHANGED <<persistedSet, scopedSet>>
  /\ last' = NoOp("mount")
  /\ UNCHANGED <<needSave, options, visibleColumnKeys, sessionStorage,
                 memoryQueryOptions, sessionQueryOptions, enable,
                 allTimeRanges, allSchemas, allStmtTypes, refreshTimes,
                 errors, downloading, dlInFlight, dlPromise, href>>

(***************************************************************************)
(* Query options                                                           *)
(***************************************************************************)
\* Mutations: the setter always, or never, writes the session slot.
SavesToSessionNever(ns) == FALSE

SavesToSessionAlways(ns) == TRUE

\* if (needSave) setSessionQueryOptions(..) else setMemoryQueryOptions(..)
SavesToSession(ns) == ns

setQueryOptions(newOptions) ==
  /\ mounted
  /\ IF SavesToSession(needSave)
     THEN /\ sessionStorage' = {JSONstringify(newOptions)}
          /\ sessionQueryOptions' = newOptions
          /\ UNCHANGED memoryQueryOptions
     ELSE /\ memoryQueryOptions' = newOptions
          /\ UNCHANGED <<sessionStorage, sessionQueryOptions>>
  /\ queryStatementList(QueryOptionsOf(needSave, sessionQueryOptions',
                                       memoryQueryOptions'),
                        allTimeRanges, selectedFields(visibleColumnKeys),
                        refreshTimes)
  /\ persistedSet' = IF needSave THEN {newOptions} ELSE persistedSet
  /\ scopedSet' = IF needSave THEN scopedSet ELSE {newOptions}
  /\ last' = NoOp("setQueryOptions")
  /\ UNCHANGED <<needSave, options, visibleColumnKeys, enable, allTimeRanges,
                 allSchemas, allStmtTypes, refreshTimes, errors, downloading,
                 mounted, metaInFlight, dlInFlight, dlPromise, href>>

\* The caller renders the hook with another visibleColumnKeys.
ChangeColumns(keys) ==
  /\ mounted
  /\ keys # visibleColumnKeys
  /\ visibleColumnKeys' = keys
  /\ IF selectedFields(keys) # selectedFields(visibleColumnKeys)
     THEN queryStatementList(queryOptions, allTimeRanges,
                             selectedFields(keys), refreshTimes)
     ELSE UNCHANGED <<statements, loadingStatements, listInFlight, listIssued,
                      shown>>
  /\ UNCHANGED <<persistedSet, scopedSet>>
  /\ last' = NoOp("changeColumns")
  /\ UNCHANGED <<needSave, options, sessionStorage, memoryQueryOptions,
                 sessionQueryOptions, enable, allTimeRanges, allSchemas,
                 allStmtTypes, refreshTimes, errors, downloading, mounted,
                 metaInFlight, dlInFlight, dlPromise, href>>

(***************************************************************************)
(* Errors                                                                  *)
(***************************************************************************)
\* Mutation: the new error is put in front.
concatFront(prev, e) == <<e>> \o prev

\* prev.concat(e)
concat(prev, e) == Append(prev, e)

\* Mutation: refresh keeps the errors.
RefreshErrorsKept(prev) == prev

\* setErrors([]) in refresh
RefreshErrors(prev) == <<>>

\* Mutation: a list response keeps the errors.
ListSuccessErrorsKept(prev) == prev

\* setErrors([]) after a list response
ListSuccessErrors(prev) == <<>>

Err(kind, gen) == [kind |-> kind, gen |-> gen]

\* Mutation: refresh() also runs the statement list loader.
refreshAndReload ==
  /\ mounted
  /\ errors' = RefreshErrors(errors)
  /\ refreshTimes' = refreshTimes + 1
  /\ metaInFlight' = metaInFlight \cup MetaBatch(refreshTimes')
  /\ queryStatementList(queryOptions, allTimeRanges,
                        selectedFields(visibleColumnKeys), refreshTimes')
  /\ UNCHANGED <<persistedSet, scopedSet>>
  /\ last' = NoOp("refresh")
  /\ UNCHANGED <<needSave, options, visibleColumnKeys, sessionStorage,
                 memoryQueryOptions, sessionQueryOptions, enable,
                 allTimeRanges, allSchemas, allStmtTypes, downloading,
                 mounted, dlInFlight, dlPromise, href>>

refresh ==
  /\ mounted
  /\ errors' = RefreshErrors(errors)
  /\ refreshTimes' = refreshTimes + 1
  /\ metaInFlight' = metaInFlight \cup MetaBatch(refreshTimes')
  /\ UNCHANGED <<persistedSet, scopedSet, shown>>
  /\ last' = NoOp("refresh")
  /\ UNCHANGED <<needSave, options, visibleColumnKeys, sessionStorage,
                 memoryQueryOptions, sessionQueryOptions, enable,
                 allTimeRanges, allSchemas, allStmtTypes, loadingStatements,
                 statements, downloading, mounted, listInFlight, listIssued,
                 dlInFlight, dlPromise, href>>

(***************************************************************************)
(* Metadata loader: resumption of the four fetches                         *)
(***************************************************************************)
MetaDone(op, r, rows) ==
  [op |-> op, kind |-> r.kind, gen |-> r.gen, rows |-> rows]

\* Mutation: the fetches of one cycle are settled together.
OthersInFlightAborted(inflight, r) == {x \in inflight : x.gen # r.gen}

\* What a resumed metadata fetch leaves of the other suspended fetches.
OthersInFlight(inflight, r) == inflight \ {r}

\* res?.data.enable!
EnableOf(data) == IF data = {} THEN "undefined" ELSE CHOOSE d \in data : TRUE

queryStatementStatusOk(r, data) ==
  /\ mounted
  /\ r \in metaInFlight /\ r.kind = "enable"
  /\ enable' = EnableOf(data)
  /\ metaInFlight' = OthersInFlight(metaInFlight, r)
  /\ UNCHANGED <<persistedSet, scopedSet, shown>>
  /\ last' = MetaDone("metaOk", r,
                      IF data = {} THEN <<>> ELSE <<CHOOSE d \in data : TRUE>>)
  /\ UNCHANGED <<needSave, options, visibleColumnKeys, sessionStorage,
                 memoryQueryOptions, sessionQueryOptions, allTimeRanges,
                 allSchemas, allStmtTypes, loadingStatements, statements,
                 refreshTimes, errors, downloading, mounted, listInFlight,
                 listIssued, dlInFlight, dlPromise, href>>

querySchemasOk(r, data) ==
  /\ mounted
  /\ r \in metaInFlight /\ r.kind = "schemas"
  /\ allSchemas' = OrEmpty(data)
  /\ metaInFlight' = OthersInFlight(metaInFlight, r)
  /\ UNCHANGED <<persistedSet, scopedSet, shown>>
  /\ last' = MetaDone("metaOk", r, OrEmpty(data))
  /\ UNCHANGED <<needSave, options, visibleColumnKeys, sessionStorage,
                 memoryQueryOptions, sessionQueryOptions, enable,
                 allTimeRanges, allStmtTypes, loadingStatements, statements,
                 refreshTimes, errors, downloading, mounted, listInFlight,
                 listIssued, dlInFlight, dlPromise, href>>

\* setAllTimeRanges stores a new array, so the list effect runs again.
queryTimeRangesOk(r, data) ==
  /\ mounted
  /\ r \in metaInFlight /\ r.kind = "timeRanges"
  /\ allTimeRanges' = OrEmpty(data)
  /\ metaInFlight' = OthersInFlight(metaInFlight, r)
  /\ queryStatementList(queryOptions, allTimeRanges',
                        selectedFields(visibleColumnKeys), refreshTimes)
  /\ UNCHANGED <<persistedSet, scopedSet>>
  /\ last' = MetaDone("metaOk", r, OrEmpty(data))
  /\ UNCHANGED <<needSave, options, visibleColumnKeys, sessionStorage,
                 memoryQueryOptions, sessionQueryOptions, enable, allSchemas,
                 allStmtTypes, refreshTimes, errors, downloading, mounted,
                 dlInFlight, dlPromise, href>>

queryStmtTypesOk(r, data) ==
  /\ mounted
  /\ r \in metaInFlight /\ r.kind = "stmtTypes"
  /\ allStmtTypes' = OrEmpty(data)
  /\ metaInFlight' = OthersInFlight(metaInFlight, r)
  /\ UNCHANGED <<persistedSet, scopedSet, shown>>
  /\ last' = MetaDone("metaOk", r, OrEmpty(data))
  /\ UNCHANGED <<needSave, options, visibleColumnKeys, sessionStorage,
                 memoryQueryOptions, sessionQueryOptions, enable,
                 allTimeRanges, allSchemas, loadingStatements, statements,
                 refreshTimes, errors, downloading, mounted, listInFlight,
                 listIssued, dlInFlight, dlPromise, href>>

\* The catch block, the same in all four fetches.
MetaFailure(r) ==
  /\ mounted
  /\ r \in metaInFlight
  /\ errors' = concat(errors, Err(r.kind, r.gen))
  /\ metaInFlight' = OthersInFlight(metaInFlight, r)
  /\ UNCHANGED <<persistedSet, scopedSet, shown>>
  /\ last' = MetaDone("metaFail", r, <<>>)
  /\ UNCHANGED <<needSave, options, visibleColumnKeys, sessionStorage,
                 memoryQueryOptions, sessionQueryOptions, enable,
                 allTimeRanges, allSchemas, allStmtTypes, loadingStatements,
                 statements, refreshTimes, downloading, mounted, listInFlight,
                 listIssued, dlInFlight, dlPromise, href>>

(***************************************************************************)
(* Statement list loader: resumption of statementsListGet                  *)
(***************************************************************************)
\* Mutation: rows already shown are kept, the first response wins.
ListSuccessStatementsFirst(prev, data) ==
  IF prev # <<>> THEN prev ELSE OrEmpty(data)

\* Mutation: the response is merged into the rows already shown.
ListSuccessStatementsMerged(prev, data) == prev \o OrEmpty(data)

\* setStatements(res?.data || [])
ListSuccessStatements(prev, data) == OrEmpty(data)

\* Mutation: the resumed list fetch sets the loader off again, as it would if
\* statements were one of its dependencies.
ListSuccessReloads(r, data) ==
  /\ mounted
  /\ r \in listInFlight
  /\ statements' = ListSuccessStatements(statements, data)
  /\ errors' = ListSuccessErrors(errors)
  /\ loadingStatements' = (listIssued < 3)
  /\ listIssued' = IF listIssued < 3 THEN listIssued + 1 ELSE listIssued
  /\ listInFlight' = (listInFlight \ {r}) \cup
       (IF listIssued < 3
        THEN {[id |-> listIssued + 1, opts |-> r.opts, fields |-> r.fields,
               gen |-> r.gen]}
        ELSE {})
  /\ UNCHANGED <<persistedSet, scopedSet>>
  /\ shown' = {[id |-> r.id, opts |-> r.opts, rows |-> OrEmpty(data)]}
  /\ last' = [op |-> "listOk", kind |-> "list", gen |-> r.id,
              rows |-> OrEmpty(data)]
  /\ UNCHANGED <<needSave, options, visibleColumnKeys, sessionStorage,
                 memoryQueryOptions, sessionQueryOptions, enable,
                 allTimeRanges, allSchemas, allStmtTypes, refreshTimes,
                 downloading, mounted, metaInFlight, dlInFlight,
                 dlPromise, href>>

ListSuccess(r, data) ==
  /\ mounted
  /\ r \in listInFlight
  /\ statements' = ListSuccessStatements(statements, data)
  /\ errors' = ListSuccessErrors(errors)
  /\ loadingStatements' = FALSE
  /\ listInFlight' = listInFlight \ {r}
  /\ UNCHANGED <<persistedSet, scopedSet>>
  /\ shown' = {[id |-> r.id, opts |-> r.opts, rows |-> OrEmpty(data)]}
  /\ last' = [op |-> "listOk", kind |-> "list", gen |-> r.id,
              rows |-> OrEmpty(data)]
  /\ UNCHANGED <<needSave, options, visibleColumnKeys, sessionStorage,
                 memoryQueryOptions, sessionQueryOptions, enable,
                 allTimeRanges, allSchemas, allStmtTypes, refreshTimes,
                 downloading, mounted, metaInFlight, listIssued, dlInFlight,
                 dlPromise, href>>

\* Mutation: a failed fetch empties the rows shown.
ListFailureClearsRows(r) ==
  /\ mounted
  /\ r \in listInFlight
  /\ errors' = concat(errors, Err("list", r.gen))
  /\ statements' = <<>>
  /\ loadingStatements' = FALSE
  /\ listInFlight' = listInFlight \ {r}
  /\ UNCHANGED <<persistedSet, scopedSet, shown>>
  /\ last' = [op |-> "listFail", kind |-> "list", gen |-> r.id,
              rows |-> <<>>]
  /\ UNCHANGED <<needSave, options, visibleColumnKeys, sessionStorage,
                 memoryQueryOptions, sessionQueryOptions, enable,
                 allTimeRanges, allSchemas, allStmtTypes, refreshTimes,
                 downloading, mounted, metaInFlight, listIssued, dlInFlight,
                 dlPromise, href>>

\* Mutation: a failed fetch leaves the loading flag on.
ListFailureStillLoading(r) ==
  /\ mounted
  /\ r \in listInFlight
  /\ errors' = concat(errors, Err("list", r.gen))
  /\ listInFlight' = listInFlight \ {r}
  /\ UNCHANGED <<persistedSet, scopedSet, shown>>
  /\ last' = [op |-> "listFail", kind |-> "list", gen |-> r.id,
              rows |-> <<>>]
  /\ UNCHANGED <<needSave, options, visibleColumnKeys, sessionStorage,
                 memoryQueryOptions, sessionQueryOptions, enable,
                 allTimeRanges, allSchemas, allStmtTypes, statements,
                 loadingStatements, refreshTimes, downloading, mounted,
                 metaInFlight, listIssued, dlInFlight, dlPromise, href>>

ListFailure(r) ==
  /\ mounted
  /\ r \in listInFlight
  /\ errors' = concat(errors, Err("list", r.gen))
  /\ loadingStatements' = FALSE
  /\ listInFlight' = listInFlight \ {r}
  /\ UNCHANGED <<persistedSet, scopedSet, shown>>
  /\ last' = [op |-> "listFail", kind |-> "list", gen |-> r.id,
              rows |-> <<>>]
  /\ UNCHANGED <<needSave, options, visibleColumnKeys, sessionStorage,
                 memoryQueryOptions, sessionQueryOptions, enable,
                 allTimeRanges, allSchemas, allStmtTypes, statements,
                 refreshTimes, downloading, mounted, metaInFlight, listIssued,
                 dlInFlight, dlPromise, href>>

(***************************************************************************)
(* CSV export                                                              *)
(***************************************************************************)
BASE_PATH == "/dashboard/api"

\* `${client.getBasePath()}/statements/download?token=${token}`
DownloadURL(token) == <<BASE_PATH, "/statements/download?token=", token>>

\* if (token): undefined and '' are falsy
Truthy(data) == data # {} /\ data # {""}

\* Mutation: no cleanup of the flag.
FinallyDownloadingKept(prev) == prev

\* setDownloading(false) in the finally block
FinallyDownloading(prev) == FALSE

\* Mutation: the export error is captured like the others.
DownloadFailErrorsCaptured(prev, e) == Append(prev, e)

\* The shared error list after a rejected token request: there is no catch.
DownloadFailErrors(prev, e) == prev

DlDone(op, id) == [op |-> op, kind |-> "download", gen |-> id, rows |-> <<>>]

downloadCSV ==
  /\ mounted
  /\ downloading' = TRUE
  /\ dlPromise' = Append(dlPromise, "pending")
  /\ dlInFlight' = dlInFlight \cup {Len(dlPromise) + 1}
  /\ UNCHANGED <<persistedSet, scopedSet, shown>>
  /\ last' = DlDone("downloadCSV", Len(dlPromise) + 1)
  /\ UNCHANGED <<needSave, options, visibleColumnKeys, sessionStorage,
                 memoryQueryOptions, sessionQueryOptions, enable,
                 allTimeRanges, allSchemas, allStmtTypes, loadingStatements,
                 statements, refreshTimes, errors, mounted, metaInFlight,
                 listInFlight, listIssued, href>>

DownloadTokenOk(id, data) ==
  /\ mounted
  /\ id \in dlInFlight
  /\ href' = IF Truthy(data) THEN DownloadURL(CHOOSE t \in data : TRUE)
             ELSE href
  /\ downloading' = FinallyDownloading(downloading)
  /\ dlPromise' = [dlPromise EXCEPT ![id] = "fulfilled"]
  /\ dlInFlight' = dlInFlight \ {id}
  /\ UNCHANGED <<persistedSet, scopedSet, shown>>
  /\ last' = [op |-> "dlOk", kind |-> "download", gen |-> id,
              rows |-> IF data = {} THEN <<>> ELSE <<CHOOSE t \in data : TRUE>>]
  /\ UNCHANGED <<needSave, options, visibleColumnKeys, sessionStorage,
                 memoryQueryOptions, sessionQueryOptions, enable,
                 allTimeRanges, allSchemas, allStmtTypes, loadingStatements,
                 statements, refreshTimes, errors, mounted, metaInFlight,
                 listInFlight, listIssued>>

DownloadTokenFail(id) ==
  /\ mounted
  /\ id \in dlInFlight
  /\ downloading' = FinallyDownloading(downloading)
  /\ errors' = DownloadFailErrors(errors, Err("download", refreshTimes))
  /\ dlPromise' = [dlPromise EXCEPT ![id] = "rejected"]
  /\ dlInFlight' = dlInFlight \ {id}
  /\ UNCHANGED <<persistedSet, scopedSet, shown>>
  /\ last' = DlDone("dlFail", id)
  /\ UNCHANGED <<needSave, options, visibleColumnKeys, sessionStorage,
                 memoryQueryOptions, sessionQueryOptions, enable,
                 allTimeRanges, allSchemas, allStmtTypes, loadingStatements,
                 statements, refreshTimes, mounted, metaInFlight,
                 listInFlight, listIssued, href>>

(***************************************************************************)
(* A later instance in the same session                                    *)
(***************************************************************************)
\* The live instance is unmounted (its suspended tasks can no longer change
\* any state that is read) and a new one is constructed.
Construct(ns, opt) ==
  /\ mounted
  /\ needSave' = ns
  /\ options' = opt
  /\ visibleColumnKeys' = DEF_STMT_COLUMN_KEYS
  /\ memoryQueryOptions' = OptionsOrDefault(opt)
  /\ sessionQueryOptions' = getStoredValue(sessionStorage, OptionsOrDefault(opt))
  /\ enable' = "true"
  /\ allTimeRanges' = <<>>
  /\ allSchemas' = <<>>
  /\ allStmtTypes' = <<>>
  /\ loadingStatements' = TRUE
  /\ statements' = <<>>
  /\ refreshTimes' = 0
  /\ errors' = <<>>
  /\ downloading' = FALSE
  /\ mounted' = FALSE
  /\ metaInFlight' = {}
  /\ listInFlight' = {}
  /\ listIssued' = 0
  /\ dlInFlight' = {}
  /\ dlPromise' = <<>>
  /\ UNCHANGED <<persistedSet, scopedSet>>
  /\ shown' = {}
  /\ last' = NoOp("construct")
  /\ UNCHANGED <<sessionStorage, href>>

Next ==
  \/ Counted /\ Mount
  \/ Counted /\ \E o \in QueryOptionValues : setQueryOptions(o)
  \/ Counted /\ \E keys \in ColumnKeyValues : ChangeColumns(keys)
  \/ Counted /\ refresh
  \/ Counted /\ \E r \in metaInFlight : \E d \in EnablePayloads :
                  queryStatementStatusOk(r, d)
  \/ Counted /\ \E r \in metaInFlight : \E d \in SchemasPayloads :
                  querySchemasOk(r, d)
  \/ Counted /\ \E r \in metaInFlight : \E d \in TimeRangesPayloads :
                  queryTimeRangesOk(r, d)
  \/ Counted /\ \E r \in metaInFlight : \E d \in StmtTypesPayloads :
                  queryStmtTypesOk(r, d)
  \/ Counted /\ \E r \in metaInFlight : MetaFailure(r)
  \/ Counted /\ \E r \in listInFlight : \E d \in ListPayloads :
                  ListSuccess(r, d)
  \/ Counted /\ \E r \in listInFlight : ListFailure(r)
  \/ Counted /\ downloadCSV
  \/ Counted /\ \E id \in dlInFlight : \E d \in TokenPayloads :
                  DownloadTokenOk(id, d)
  \/ Counted /\ \E id \in dlInFlight : DownloadTokenFail(id)
  \/ Counted /\ \E ns \in BOOLEAN : \E opt \in OptionsArguments :
                  Construct(ns, opt)

Spec == Init /\ [][Next]_vars

(***************************************************************************)
(* Behaviours in which every remote call is answered                       *)
(*                                                                         *)
(* The user performs at most MaxLiveOps operations on one instance and     *)
(* calls refresh() only when no metadata fetch is suspended.  The server   *)
(* answers a list request with rows or with a failure, and a token request *)
(* with a token, with nothing or with a failure.  Resumptions are not      *)
(* counted: none is ever cut off.                                          *)
(***************************************************************************)
UserOp ==
  \/ setQueryOptions(OTHER_QUERY_OPTIONS)
  \/ \E keys \in ColumnKeyValues : ChangeColumns(keys)
  \/ metaInFlight = {} /\ refresh
  \/ downloadCSV

Resume ==
  \/ \E r \in metaInFlight : \E d \in EnablePayloads :
       queryStatementStatusOk(r, d)
  \/ \E r \in metaInFlight : \E d \in SchemasPayloads : querySchemasOk(r, d)
  \/ \E r \in metaInFlight : \E d \in TimeRangesPayloads :
       queryTimeRangesOk(r, d)
  \/ \E r \in metaInFlight : \E d \in StmtTypesPayloads :
       queryStmtTypesOk(r, d)
  \/ \E r \in metaInFlight : MetaFailure(r)
  \/ \E r \in listInFlight : ListSuccess(r, {<<"s1">>})
  \/ \E r \in listInFlight : ListFailure(r)
  \/ \E id \in dlInFlight : \E d \in {{}, {"t1"}} : DownloadTokenOk(id, d)
  \/ \E id \in dlInFlight : DownloadTokenFail(id)

LiveNext ==
  \/ Mount /\ UNCHANGED steps
  \/ steps < MaxLiveOps /\ steps' = steps + 1 /\ UserOp
  \/ Resume /\ UNCHANGED steps

\* React runs the effects of a render, and every remote call is answered.
LiveSpec ==
  /\ Init
  /\ [][LiveNext]_vars
  /\ WF_vars(Mount /\ UNCHANGED steps)
  /\ WF_vars(Resume /\ UNCHANGED steps)

(***************************************************************************)
(* Properties                                                              *)
(***************************************************************************)
IsPrefix(s, t) == Len(s) <= Len(t) /\ SubSeq(t, 1, Len(s)) = s

\* The last step ran the statement list effect.
LoaderRan ==
  \/ last.op \in {"mount", "setQueryOptions", "changeColumns"}
  \/ last.op = "metaOk" /\ last.kind = "timeRanges"

\* C1: a run of the statement-list loader with allTimeRanges empty issues no
\* statementsListGet call, sets statements to the empty list and
\* loadingStatements to false, and leaves errors as it was.
C1_ShortCircuit ==
  [][(LoaderRan' /\ allTimeRanges' = <<>>) =>
       /\ listInFlight' = listInFlight
       /\ listIssued' = listIssued
       /\ statements' = <<>>
       /\ loadingStatements' = FALSE
       /\ errors' = errors]_vars

\* The loader ran on an empty allTimeRanges while an earlier list fetch is
\* still suspended.
C1_Witness ==
  /\ LoaderRan
  /\ allTimeRanges = <<>>
  /\ listInFlight # {}
  /\ statements = <<>>
  /\ ~loadingStatements

\* C2: a successful list response sets errors to the empty list; a failed one
\* keeps the existing errors in place and appends exactly one error.
C2_ListResponseErrors ==
  [][/\ last'.op = "listOk" => errors' = <<>>
     /\ last'.op = "listFail" =>
          /\ Len(errors') = Len(errors) + 1
          /\ SubSeq(errors', 1, Len(errors)) = errors
          /\ errors'[Len(errors')].kind = "list"]_vars

\* A failed list response arrived after a metadata error had been recorded.
C2_Witness ==
  /\ last.op = "listFail"
  /\ Len(errors) >= 2
  /\ errors[1].kind # "list"
  /\ errors[Len(errors)].kind = "list"

\* C3 as stated: in every step of an instance other than refresh(), the old
\* errors are a prefix of the new errors.
C3_AppendOnlyButRefresh ==
  [][last'.op \notin {"refresh", "construct"} =>
       IsPrefix(errors, errors')]_vars

\* C3 amended: in every step of an instance other than refresh() and the
\* resumption of a successful list fetch, the old errors are a prefix of the
\* new errors.
C3_AppendOnlyButRefreshAndListOk ==
  [][last'.op \notin {"refresh", "construct", "listOk"} =>
       IsPrefix(errors, errors')]_vars

\* Two errors have been appended, the last one by a metadata fetch.
C3_Witness ==
  /\ last.op = "metaFail"
  /\ Len(errors) >= 2
  /\ errors[1] # errors[2]

\* C4: refresh() empties errors in its own step, in which the four fetches it
\* triggers are suspended and no suspended fetch has been resumed.
C4_RefreshClearsErrors ==
  [][refreshTimes' = refreshTimes + 1 =>
       /\ errors' = <<>>
       /\ MetaBatch(refreshTimes') \subseteq metaInFlight'
       /\ metaInFlight \subseteq metaInFlight'
       /\ listInFlight' = listInFlight
       /\ dlInFlight' = dlInFlight]_vars

\* refresh() was called while a metadata fetch of the previous cycle (another
\* one of which had already been settled) and a list fetch were suspended.
C4_Witness ==
  /\ last.op = "refresh"
  /\ errors = <<>>
  /\ \E r \in metaInFlight : r.gen < refreshTimes
  /\ Cardinality(metaInFlight) < 8
  /\ listInFlight # {}

\* C5: statements only ever changes to the empty list or to the whole payload
\* of the list request that has just succeeded, and a successful response
\* always installs its whole payload.
C5_WholePayload ==
  [][/\ statements' # statements =>
          \/ statements' = <<>>
          \/ /\ last'.op = "listOk"
             /\ statements' = last'.rows
             /\ \E r \in listInFlight :
                  r.id = last'.gen /\ r \notin listInFlight'
     /\ last'.op = "listOk" => statements' = last'.rows]_vars

\* A response replaced the rows of an earlier response.
C5_Witness ==
  /\ last.op = "listOk"
  /\ statements = <<"s2">>
  /\ listIssued >= 2
  /\ listInFlight = {}
  /\ allTimeRanges # <<>>

\* C6: a failing metadata fetch appends its error, changes none of the four
\* metadata fields and leaves the other fetches suspended; a succeeding one
\* replaces its own field by its response (last.rows) and no other field, and
\* leaves errors and the other fetches alone.
C6_MetadataIsolation ==
  [][/\ last'.op = "metaFail" =>
          \E r \in metaInFlight :
            /\ r.kind = last'.kind /\ r.gen = last'.gen
            /\ metaInFlight' = metaInFlight \ {r}
            /\ errors' = Append(errors, [kind |-> r.kind, gen |-> r.gen])
            /\ UNCHANGED <<enable, allSchemas, allTimeRanges, allStmtTypes>>
     /\ last'.op = "metaOk" =>
          \E r \in metaInFlight :
            /\ r.kind = last'.kind /\ r.gen = last'.gen
            /\ metaInFlight' = metaInFlight \ {r}
            /\ errors' = errors
            /\ r.kind = "enable" =>
                 /\ enable' = IF last'.rows = <<>> THEN "undefined"
                              ELSE last'.rows[1]
                 /\ UNCHANGED <<allSchemas, allTimeRanges, allStmtTypes>>
            /\ r.kind = "schemas" =>
                 /\ allSchemas' = last'.rows
                 /\ UNCHANGED <<enable, allTimeRanges, allStmtTypes>>
            /\ r.kind = "timeRanges" =>
                 /\ allTimeRanges' = last'.rows
                 /\ UNCHANGED <<enable, allSchemas, allStmtTypes>>
            /\ r.kind = "stmtTypes" =>
                 /\ allStmtTypes' = last'.rows
                 /\ UNCHANGED <<enable, allSchemas, allTimeRanges>>]_vars

\* One cycle in which two fetches failed and the two others succeeded.
C6_Witness ==
  /\ metaInFlight = {}
  /\ refreshTimes = 0
  /\ Len(errors) = 2
  /\ {errors[1].kind, errors[2].kind} = {"schemas", "timeRanges"}
  /\ enable = "false"
  /\ allStmtTypes = <<"select">>
  /\ allSchemas = <<>>
  /\ allTimeRanges = <<>>

DownloadDone == last.op \in {"dlOk", "dlFail"}

\* C7: when the token request of a downloadCSV() call is settled, downloading
\* becomes false; the browser is redirected exactly when a token came back.
C7_DownloadingReset ==
  [][DownloadDone' =>
       /\ downloading' = FALSE
       /\ IF last'.op = "dlOk" /\ last'.rows # <<>> /\ last'.rows # <<"">>
          THEN href' = <<BASE_PATH, "/statements/download?token=",
                         last'.rows[1]>>
          ELSE href' = href]_vars

\* One call ended with a token and a redirect, another one with a failure.
C7_Witness ==
  /\ dlPromise = <<"fulfilled", "rejected">>
  /\ href # PAGE_URL
  /\ ~downloading
  /\ dlInFlight = {}

\* C8: a failed token request rejects the promise of its downloadCSV() call
\* and changes none of errors, statements, loadingStatements and the metadata
\* fields; no step of downloadCSV changes errors.
C8_DownloadErrorNotCaptured ==
  [][/\ last'.op = "dlFail" =>
          /\ dlPromise'[last'.gen] = "rejected"
          /\ UNCHANGED <<errors, statements, loadingStatements, enable,
                         allSchemas, allTimeRanges, allStmtTypes>>
     /\ last'.kind = "download" => errors' = errors]_vars

\* A token request failed while an error was on display.
C8_Witness ==
  /\ last.op = "dlFail"
  /\ errors # <<>>
  /\ dlPromise[last.gen] = "rejected"

\* C9: a needSave instance that has just been constructed, after a needSave
\* instance of the session called setQueryOptions(x), has queryOptions = x.
C9_PersistedRoundTrip ==
  (~mounted /\ needSave /\ persistedSet # {}) => queryOptions \in persistedSet

\* The new instance was given other options than the x it starts from.
C9_Witness ==
  /\ ~mounted
  /\ needSave
  /\ persistedSet = {DEF_STMT_QUERY_OPTIONS}
  /\ options = {OTHER_QUERY_OPTIONS}
  /\ queryOptions = DEF_STMT_QUERY_OPTIONS

\* C10: setQueryOptions of a call-scoped instance leaves the session item as
\* it is, and a call-scoped instance that has just been constructed has the
\* options its caller gave it, or the default.
C10_CallScoped ==
  /\ [][(last'.op = "setQueryOptions" /\ ~needSave) =>
          sessionStorage' = sessionStorage]_vars
  /\ []((~mounted /\ ~needSave) =>
          /\ options = {} => queryOptions = DEF_STMT_QUERY_OPTIONS
          /\ options # {} => queryOptions \in options)

\* A call-scoped instance set x; the call-scoped instance constructed next
\* starts from the default and the session item is still missing.
C10_Witness ==
  /\ ~mounted
  /\ ~needSave
  /\ scopedSet = {OTHER_QUERY_OPTIONS}
  /\ options = {}
  /\ queryOptions = DEF_STMT_QUERY_OPTIONS
  /\ sessionStorage = {}

\* C11: the mount of an instance and every refresh() issue one batch of four
\* metadata fetches (one per kind), and no other step issues a metadata
\* fetch.
C11_MetadataBatches ==
  [][/\ metaInFlight' \ metaInFlight # {} =>
          last'.op \in {"mount", "refresh"}
     /\ last'.op \in {"mount", "refresh"} =>
          metaInFlight' \ metaInFlight =
            {[kind |-> k, gen |-> refreshTimes'] :
               k \in {"enable", "schemas", "timeRanges", "stmtTypes"}}]_vars

\* setQueryOptions issued a list fetch while three fetches of the first batch
\* were suspended, and the batch has not grown.
C11_Witness ==
  /\ last.op = "setQueryOptions"
  /\ listIssued = 2
  /\ refreshTimes = 0
  /\ Cardinality(metaInFlight) = 3

\* C12: once no list fetch is suspended, statements is the payload of the
\* successful fetch that was resumed last since allTimeRanges was last found
\* empty, whichever fetch was issued last.
C12_LastResumedWins ==
  (listInFlight = {} /\ shown # {}) => \A q \in shown : statements = q.rows

\* Of two overlapping fetches the older one was resumed last: its rows are
\* shown although its filters are not the current queryOptions.
C12_Witness ==
  /\ listInFlight = {}
  /\ listIssued = 2
  /\ allTimeRanges # <<>>
  /\ statements # <<>>
  /\ \E q \in shown :
       /\ q.id = 1
       /\ q.opts # queryOptions
       /\ statements = q.rows

\* C13: refresh() issues no list fetch and changes none of statements,
\* loadingStatements, queryOptions and the metadata fields in its own step;
\* of the resumptions of metadata fetches only a successful time-range
\* response runs the list loader, every other one (a failure, or a response
\* of another kind) leaves the list loader's state alone.
C13_RefreshReloadsIndirectly ==
  [][/\ refreshTimes' = refreshTimes + 1 =>
          /\ listIssued' = listIssued
          /\ listInFlight' = listInFlight
          /\ queryOptions' = queryOptions
          /\ UNCHANGED <<statements, loadingStatements, enable, allSchemas,
                         allTimeRanges, allStmtTypes>>
     /\ (\/ last'.op = "metaFail"
         \/ last'.op = "metaOk" /\ last'.kind # "timeRanges") =>
          UNCHANGED <<listIssued, listInFlight, statements,
                      loadingStatements>>
     /\ (last'.op = "metaOk" /\ last'.kind = "timeRanges") =>
          IF allTimeRanges' = <<>>
          THEN /\ listIssued' = listIssued
               /\ statements' = <<>>
               /\ loadingStatements' = FALSE
          ELSE /\ listIssued' = listIssued + 1
               /\ \E r \in listInFlight' \ listInFlight :
                    r.id = listIssued' /\ r.opts = queryOptions
               /\ loadingStatements' = TRUE]_vars

\* After a refresh() the time-range response of the new cycle has issued the
\* second list fetch; the refresh() itself had issued none.
C13_Witness ==
  /\ last.op = "metaOk"
  /\ last.kind = "timeRanges"
  /\ last.gen = 1
  /\ refreshTimes = 1
  /\ listIssued = 2
  /\ loadingStatements

\* C14: the resumption of a failed list fetch changes none of statements,
\* queryOptions and the four metadata fields.
C14_ListFailureFrame ==
  [][last'.op = "listFail" =>
       /\ statements' = statements
       /\ queryOptions' = queryOptions
       /\ UNCHANGED <<enable, allSchemas, allTimeRanges, allStmtTypes>>]_vars

\* A list fetch failed while the rows of an earlier response were shown.
C14_Witness ==
  /\ last.op = "listFail"
  /\ statements # <<>>
  /\ errors # <<>>
  /\ ~loadingStatements

\* C15: the resumption of a list fetch, successful or failed, sets
\* loadingStatements to false; and when every remote call is answered, the
\* controller ends up for good with no list fetch suspended and
\* loadingStatements false.
C15_LoadingEnds ==
  /\ [][last'.op \in {"listOk", "listFail"} =>
          loadingStatements' = FALSE]_vars
  /\ <>[](listInFlight = {} /\ ~loadingStatements)

\* Two list fetches were issued and both have been resumed, the last one by
\* a failure; the metadata fetches are settled too.
C15_Witness ==
  /\ last.op = "listFail"
  /\ listIssued = 2
  /\ listInFlight = {}
  /\ metaInFlight = {}
  /\ ~loadingStatements

\* C16: loadingStatements is true in every state in which a list fetch is
\* suspended.
C16_LoadingWhileInFlight == listInFlight # {} => loadingStatements

\* C17: in every state of a mounted instance in which allTimeRanges is empty
\* and no list fetch is suspended, statements is the empty list.
C17_NoRowsWithoutTimeRanges ==
  (mounted /\ allTimeRanges = <<>> /\ listInFlight = {}) => statements = <<>>

\* C18: every error in errors was raised by a fetch issued at or after the
\* last refresh().
C18_NoStaleErrors ==
  \A i \in 1..Len(errors) : errors[i].gen = refreshTimes

\* C19: downloading is true in every state in which a token request is
\* suspended.
C19_DownloadingWhileInFlight == dlInFlight # {} => downloading

\* No remote call is suspended.
Quiescent == metaInFlight = {} /\ listInFlight = {} /\ dlInFlight = {}

\* C20: the resumption of a list fetch, by a response or by a failure, issues
\* no call of any kind; the resumption of a metadata fetch issues at most one
\* list fetch and no other call; and with finitely many user operations and
\* every call eventually resumed, the controller ends up, for good, with no
\* call suspended.
C20_Quiescence ==
  /\ [][/\ last'.op \in {"listOk", "listFail"} =>
             /\ listIssued' = listIssued
             /\ listInFlight' \subseteq listInFlight
             /\ metaInFlight' = metaInFlight
             /\ dlInFlight' = dlInFlight
             /\ dlPromise' = dlPromise
        /\ last'.op \in {"metaOk", "metaFail"} =>
             /\ listIssued' \in {listIssued, listIssued + 1}
             /\ Cardinality(listInFlight' \ listInFlight) <= 1
             /\ metaInFlight' \subseteq metaInFlight
             /\ dlInFlight' = dlInFlight
             /\ dlPromise' = dlPromise]_vars
  /\ <>[]Quiescent

\* A user operation was made after the mount, a time-range response set the
\* list loader off, and now every call is settled.
C20_Witness ==
  /\ Quiescent
  /\ steps >= 1
  /\ listIssued >= 1
  /\ last.op \in {"listOk", "listFail"}
  /\ allTimeRanges # <<>>
====
